---- MODULE Spec2Model ----
(***************************************************************************)
(* Model of feedback.py: the sentiment classifier analyze_sentiment, the   *)
(* loader load_file, the batch loop process_feedback and the entry point   *)
(* main.                                                                   *)
(*                                                                         *)
(* Text is a sequence of one-character strings.  A cell of the DataFrame   *)
(* is a record [na, val]: na = TRUE is pandas' NaN/None, otherwise val is  *)
(* the cell's string.                                                      *)
(*                                                                         *)
(* A score is an exact fraction [num, den] (den > 0); the two polarity     *)
(* scorers answer on the grid k / Res, k \in -Res..Res, of [-1, 1].        *)
(***************************************************************************)
EXTENDS Integers, Sequences, FiniteSets, TLC

\* ------------------------------------------------------------- bounds

\* Grid of the scorers' answers: a scorer returns k / Res, k \in -Res..Res.
Res == 10

\* Longest text enumerated over Alphabet as a direct input of the classifier.
MaxLen == 3

\* Most rows of a loaded table.
MaxRows == 2

\* ------------------------------------------------------------- text

Uppers == <<"A","B","C","D","E","F","G","H","I","J","K","L","M",
            "N","O","P","Q","R","S","T","U","V","W","X","Y","Z">>
Lowers == <<"a","b","c","d","e","f","g","h","i","j","k","l","m",
            "n","o","p","q","r","s","t","u","v","w","x","y","z">>

Whitespace == {" ", "\t", "\n"}

\* the lower-case letter of each upper-case letter
ToLower ==
    [c \in {Uppers[i] : i \in 1..Len(Uppers)} |->
       Lowers[CHOOSE i \in 1..Len(Uppers) : Uppers[i] = c]]

\* str.lower() on one character
lower_char(c) == IF c \in DOMAIN ToLower THEN ToLower[c] ELSE c

\* str.lower()
lower(s) == [i \in 1..Len(s) |-> lower_char(s[i])]

\* the position of the first character that is not whitespace, Len(s) + 1
\* when there is none
FirstKept(s) ==
    CHOOSE i \in 1..(Len(s) + 1) :
        /\ i = Len(s) + 1 \/ s[i] \notin Whitespace
        /\ \A j \in 1..(i - 1) : s[j] \in Whitespace

\* the position of the last character that is not whitespace, 0 when there
\* is none
LastKept(s) ==
    CHOOSE i \in 0..Len(s) :
        /\ i = 0 \/ s[i] \notin Whitespace
        /\ \A j \in (i + 1)..Len(s) : s[j] \in Whitespace

\* str.strip(): drop the leading and the trailing whitespace
strip(s) == SubSeq(s, FirstKept(s), LastKept(s))

NaN == [na |-> TRUE, val |-> <<>>]
Str(s) == [na |-> FALSE, val |-> s]

\* ------------------------------------------------------------- scores

Frac(n, d) == [num |-> n, den |-> d]

\* a >= b, a > b on fractions with positive denominators
Geq(a, b) == a.num * b.den >= b.num * a.den
Gt(a, b) == a.num * b.den > b.num * a.den
Lt(a, b) == Gt(b, a)
Leq(a, b) == Geq(b, a)

\* the if/elif chain of analyze_sentiment, with > for >= at the first test
categorize_strict(s) ==
    IF Gt(s, Frac(7, 10)) THEN "Very Positive"
    ELSE IF Leq(Frac(2, 10), s) /\ Lt(s, Frac(7, 10)) THEN "Positive"
    ELSE IF Lt(Frac(-2, 10), s) /\ Lt(s, Frac(2, 10)) THEN "Neutral"
    ELSE IF Lt(Frac(-7, 10), s) /\ Leq(s, Frac(-2, 10)) THEN "Negative"
    ELSE "Very Negative"

\* the if/elif chain that maps sentiment_score to its label
categorize(s) ==
    IF Geq(s, Frac(7, 10)) THEN "Very Positive"
    ELSE IF Leq(Frac(2, 10), s) /\ Lt(s, Frac(7, 10)) THEN "Positive"
    ELSE IF Lt(Frac(-2, 10), s) /\ Lt(s, Frac(2, 10)) THEN "Neutral"
    ELSE IF Lt(Frac(-7, 10), s) /\ Leq(s, Frac(-2, 10)) THEN "Negative"
    ELSE "Very Negative"

\* ------------------------------------------------------------- classifier

\* the two literal lists of the quick checks
NegativeTokens == {<<"n","o">>,
                   <<"n","a","h">>,
                   <<"n","o","t"," ","r","e","a","l","l","y">>,
                   <<"n","e","v","e","r">>}
PositiveTokens == {<<"y","e","s">>,
                   <<"y","e","a","h">>,
                   <<"s","u","r","e">>,
                   <<"d","e","f","i","n","i","t","e","l","y">>}

\* the outcomes of langdetect.detect: a language code, or the exception
DetectOutcomes == {"en", "fr", "LangDetectException"}

\* what GoogleTranslator.translate may return
Translations == {<<"g","o","o","d">>, <<"n","o">>}

\* a scorer's answers k / Res
Grid == (0 - Res)..Res

\* What the libraries answer during one call of analyze_sentiment:
\*   lang      detect's outcome
\*   trOk      GoogleTranslator(...).translate returns (TRUE) or raises
\*   trText    the translation it returns
\*   vaderOk   SentimentIntensityAnalyzer().polarity_scores returns or raises
\*   vader     its compound score, on the grid
\*   blobOk    TextBlob(text).sentiment returns or raises
\*   blob      its polarity, on the grid
AllEnvs ==
    [lang : DetectOutcomes, trOk : BOOLEAN, trText : Translations,
     vaderOk : BOOLEAN, vader : Grid, blobOk : BOOLEAN, blob : Grid]

\* an environment whose every answer that no code path reads (the
\* translator's when the language is English or unknown, a scorer's after a
\* failure before it) has one fixed value
Canonical(e) ==
    /\ e.lang # "fr" => e.trOk
    /\ ~e.trOk => e.vaderOk
    /\ ~e.vaderOk => e.blobOk
    /\ (e.lang # "fr" \/ ~e.trOk) => e.trText = <<"g","o","o","d">>
    /\ (~e.trOk \/ ~e.vaderOk \/ ~e.blobOk) => e.vader = 0
    /\ (~e.trOk \/ ~e.vaderOk \/ ~e.blobOk) => e.blob = 0

Envs == {e \in AllEnvs : Canonical(e)}

\* the environment of a call that asks no library anything
IdleEnv == [lang |-> "en", trOk |-> TRUE, trText |-> <<"g","o","o","d">>,
            vaderOk |-> TRUE, vader |-> 0, blobOk |-> TRUE, blob |-> 0]

NoScore == Frac(0, 1)

\* a value returned by analyze_sentiment, or the exception that left it;
\* calls lists, in order, the stages run after the empty guard (the quick
\* checks and each library invoked), and scored is the text handed to the
\* scorers
Returned(cat, sc, calls, scored) ==
    [raised |-> "none", category |-> cat, score |-> sc,
     calls |-> calls, scored |-> scored]
Raised(e, calls, scored) ==
    [raised |-> e, category |-> "none", score |-> NoScore,
     calls |-> calls, scored |-> scored]

\* the guard that only tests for a missing value
is_empty_nostrip(text) == text.na \/ text.val = <<>>

\* pd.isna(text) or str(text).strip() == ""
is_empty(text) == text.na \/ strip(text.val) = <<>>

\* str(text).strip().lower()
normalize(text) == lower(strip(text.val))

\* does tok occur in s as a substring
Contains(s, tok) ==
    \E i \in 0..(Len(s) - Len(tok)) : SubSeq(s, i + 1, i + Len(tok)) = tok

\* the quick checks matching a token anywhere in the text
quick_check_substring(t) ==
    IF \E tok \in NegativeTokens : Contains(t, tok) THEN "Negative"
    ELSE IF \E tok \in PositiveTokens : Contains(t, tok) THEN "Positive"
    ELSE "none"

\* the quick checks for common responses: "Negative", "Positive" or "none"
quick_check(t) ==
    IF t \in NegativeTokens THEN "Negative"
    ELSE IF t \in PositiveTokens THEN "Positive"
    ELSE "none"

\* the try block that also translates when detection raised
detect_translate_always(t, env) ==
    IF env.lang = "en"
    THEN [raised |-> "none", text |-> t, calls |-> <<"detect">>]
    ELSE IF env.trOk
    THEN [raised |-> "none", text |-> env.trText,
          calls |-> <<"detect", "translate">>]
    ELSE [raised |-> "TranslatorError", text |-> t,
          calls |-> <<"detect", "translate">>]

\* the try block: detect, translate when the language is not English;
\* only LangDetectException is caught
detect_translate(t, env) ==
    IF env.lang = "LangDetectException"
    THEN [raised |-> "none", text |-> t, calls |-> <<"detect">>]
    ELSE IF env.lang = "en"
    THEN [raised |-> "none", text |-> t, calls |-> <<"detect">>]
    ELSE IF env.trOk
    THEN [raised |-> "none", text |-> env.trText,
          calls |-> <<"detect", "translate">>]
    ELSE [raised |-> "TranslatorError", text |-> t,
          calls |-> <<"detect", "translate">>]

\* (vader_score + textblob_score) / 2
sentiment_score(env) == Frac(env.vader + env.blob, 2 * Res)

analyze_sentiment(text, env) ==
    IF is_empty(text) THEN Returned("Neutral", Frac(0, 1), <<>>, <<>>)
    ELSE
    LET t == normalize(text)
        q == quick_check(t)
    IN  IF q = "Negative"
        THEN Returned("Negative", Frac(-3, 10), <<"quick_check">>, <<>>)
        ELSE IF q = "Positive"
        THEN Returned("Positive", Frac(3, 10), <<"quick_check">>, <<>>)
        ELSE
        LET d == detect_translate(t, env)
            c == <<"quick_check">> \o d.calls
        IN  IF d.raised # "none" THEN Raised(d.raised, c, <<>>)
            ELSE IF ~env.vaderOk
            THEN Raised("ScorerError", c \o <<"vader">>, d.text)
            ELSE IF ~env.blobOk
            THEN Raised("ScorerError", c \o <<"vader", "textblob">>, d.text)
            ELSE LET s == sentiment_score(env)
                 IN  Returned(categorize(s), s,
                              c \o <<"vader", "textblob">>, d.text)

\* analyze_sentiment(text) gets as far as the detector
AsksLibraries(text) ==
    ~is_empty(text) /\ quick_check(normalize(text)) = "none"

\* the environments of a call of analyze_sentiment(text) among those of E:
\* IdleEnv alone when the call asks no library anything
EnvsOf(text, E) == IF AsksLibraries(text) THEN E ELSE {IdleEnv}

\* ------------------------------------------------------------- files

\* does s end with suffix: str.endswith
endswith(s, suffix) ==
    /\ Len(s) >= Len(suffix)
    /\ SubSeq(s, Len(s) - Len(suffix) + 1, Len(s)) = suffix

XLSX == <<".","x","l","s","x">>
CSV == <<".","c","s","v">>
ZIP == <<".","z","i","p">>

\* FILE_PATH: feedback.csv beside the script
FILE_PATH == <<"f","e","e","d","b","a","c","k",".","c","s","v">>

P_csv == <<"a",".","c","s","v">>
P_xlsx == <<"d","a","t","a",".","x","l","s","x">>
P_zip == <<"f",".","z","i","p">>
P_txt == <<"n","o","t","e","s",".","t","x","t">>
P_upper == <<"B",".","C","S","V">>

\* what os.listdir may answer when FILE_PATH does not exist
Listings == {<<>>, <<P_txt>>, <<P_txt, P_xlsx, P_csv>>}

\* what ZipFile.namelist may answer
Members == {<<>>, <<P_txt>>, <<P_txt, P_csv, P_xlsx>>}

\* the paths process_feedback is called with directly
DirectPaths == {P_csv, P_zip, P_txt, P_upper}

\* ------------------------------------------------------------- tables

None == [isNone |-> TRUE, names |-> <<>>, cols |-> <<>>]
Table(names, cols) == [isNone |-> FALSE, names |-> names, cols |-> cols]

\* the header rows of the tables read
Headers ==
    {<<>>,
     <<"Timestamp", "Q1">>,
     <<"Q1", "Name", "Q2">>,
     <<"name", "Class">>,
     <<"Roll No", "Q1">>,
     <<"Timestamp", "Name", "Roll No", "Class">>}

\* the cells of the tables read: a missing value, a whitespace-only
\* string, a string with text
CellValues == {NaN, Str(<<" ">>), Str(<<"O","k">>)}

IdentityColumns == {"Timestamp", "Name", "Roll No", "Class"}

\* every table with a header of Headers and at most MaxRows rows; the cells
\* of the identity columns are all the same string
Tables ==
    UNION {
      UNION {
        { Table(h, [c \in 1..Len(h) |->
                      IF h[c] \in IdentityColumns
                      THEN [r \in 1..n |-> Str(<<"x">>)]
                      ELSE f[c]])
          : f \in [{c \in 1..Len(h) : h[c] \notin IdentityColumns}
                     -> [1..n -> CellValues]] }
        : n \in 0..MaxRows }
      : h \in Headers }

\* len(df)
NumRows(t) == IF Len(t.cols) = 0 THEN 0 ELSE Len(t.cols[1])

\* df.empty: no column or no row
IsEmpty(t) == Len(t.names) = 0 \/ NumRows(t) = 0

\* ------------------------------------------------------------- output

\* one printed item: its kind, the column it names, the rows of a table
Ev(kind) == [kind |-> kind, name |-> "", rows |-> <<>>]
EvQuestion(name) == [kind |-> "question", name |-> name, rows |-> <<>>]
EvTable(rows) == [kind |-> "table", name |-> "", rows |-> rows]

\* round(score, 2), in hundredths; a tie goes to the even neighbour
Round2(s) ==
    LET n == 100 * s.num
        q == n \div s.den
        r == n % s.den
    IN  IF 2 * r < s.den THEN q
        ELSE IF 2 * r > s.den THEN q + 1
        ELSE IF q % 2 = 0 THEN q ELSE q + 1

\* ------------------------------------------------------------- load_file

IsSheet(f) == endswith(f, XLSX) \/ endswith(f, CSV)

\* What the file system answers during one call of load_file:
\*   readOk   pd.read_excel / pd.read_csv returns (TRUE) or raises
\*   table    the table it returns
\*   zipOk    zipfile.ZipFile(...) and extract return or raise
\*   members  the archive's namelist
IOs == [readOk : BOOLEAN, table : Tables, zipOk : BOOLEAN, members : Members]

\* io with every answer that load_file(file_path) does not read (the
\* archive's when the path is no archive, the reader's when nothing is
\* read or the read raises) at one fixed value
Read(file_path, x) ==
    /\ ~endswith(file_path, ZIP) => x.zipOk /\ x.members = <<>>
    /\ ~x.zipOk => x.members = <<>>
    /\ (~IsSheet(file_path) /\ ~endswith(file_path, ZIP)) => x.readOk
    /\ (endswith(file_path, ZIP) /\ SelectSeq(x.members, IsSheet) = <<>>)
         => x.readOk
    /\ ( \/ ~x.readOk
         \/ ~IsSheet(file_path) /\ ~endswith(file_path, ZIP)
         \/ endswith(file_path, ZIP) /\ SelectSeq(x.members, IsSheet) = <<>> )
         => x.table = Table(<<>>, <<>>)

Loaded(t, o) == [raised |-> "none", df |-> t, out |-> o]

\* pd.read_excel / pd.read_csv inside the try block
read(io) ==
    IF io.readOk THEN Loaded(io.table, <<Ev("loading")>>)
    ELSE Loaded(None, <<Ev("loading"), Ev("load_error")>>)

\* load_file without its except clause: the exception leaves it
load_file_uncaught(file_path, io) ==
    IF endswith(file_path, XLSX) \/ endswith(file_path, CSV)
    THEN IF io.readOk THEN Loaded(io.table, <<Ev("loading")>>)
         ELSE [raised |-> "IOError", df |-> None, out |-> <<Ev("loading")>>]
    ELSE IF endswith(file_path, ZIP)
    THEN IF ~io.zipOk
         THEN [raised |-> "IOError", df |-> None, out |-> <<Ev("loading")>>]
         ELSE IF SelectSeq(io.members, IsSheet) = <<>>
         THEN Loaded(None, <<Ev("loading"), Ev("no_valid_in_zip")>>)
         ELSE IF io.readOk THEN Loaded(io.table, <<Ev("loading")>>)
         ELSE [raised |-> "IOError", df |-> None, out |-> <<Ev("loading")>>]
    ELSE Loaded(None, <<Ev("loading"), Ev("unsupported")>>)

\* load_file: the table read, or None after a printed diagnostic
load_file(file_path, io) ==
    IF endswith(file_path, XLSX) THEN read(io)
    ELSE IF endswith(file_path, CSV) THEN read(io)
    ELSE IF endswith(file_path, ZIP)
    THEN IF ~io.zipOk THEN Loaded(None, <<Ev("loading"), Ev("load_error")>>)
         ELSE LET zip_files == SelectSeq(io.members, IsSheet)
              IN  IF zip_files = <<>>
                  THEN Loaded(None, <<Ev("loading"), Ev("no_valid_in_zip")>>)
                  ELSE IF endswith(zip_files[1], XLSX) THEN read(io)
                  ELSE read(io)
    ELSE Loaded(None, <<Ev("loading"), Ev("unsupported")>>)

\* ------------------------------------------------------------- process_feedback

Dropped(names, drop) ==
    LET Keep(n) == n \notin drop IN SelectSeq(names, Keep)

\* df.drop(columns=['Timestamp', 'Name', 'Roll No', 'Class'], errors='ignore'):
\* the labels that are present are dropped, a missing one is no error
drop_columns(names) == Dropped(names, IdentityColumns)

\* the column named name
Series(df_, name) ==
    df_.cols[CHOOSE i \in 1..Len(df_.names) : df_.names[i] = name]

NotNa(c) == ~c.na

\* df_filtered[column].dropna().astype(str)
dropna_astype_str(column) ==
    LET kept == SelectSeq(column, NotNa)
    IN  [i \in 1..Len(kept) |-> kept[i].val]

\* [text, sentiment, round(score, 2)]
Row(t, r) == [text |-> t, sentiment |-> r.category, score |-> Round2(r.score)]

\* ------------------------------------------------------------- state

VARIABLES
    entry,      \* the function called from outside: main, process_feedback
                \* or analyze_sentiment
    pc,         \* where the call stands
    fs,         \* main: does FILE_PATH exist, and the directory's listing
    path,       \* process_feedback's file_path
    df,         \* process_feedback's df
    questions,  \* df_filtered.columns
    col,        \* the position of the column loop in questions
    cells,      \* the series the cell loop runs over
    idx,        \* the position of the cell loop in cells
    results,    \* the rows collected for the current column
    out,        \* everything printed, in order
    text,       \* the argument of the last call of analyze_sentiment
    env,        \* what the libraries answered during it
    result,     \* what it returned or raised
    exc,        \* the exception in flight, "none" when there is none
    io          \* what the file system answered during load_file

vars == <<entry, pc, fs, path, df, questions, col, cells, idx, results, out,
          text, env, result, exc, io>>

NoResult == Raised("none", <<>>, <<>>)

NoFs == [exists |-> TRUE, listing |-> <<>>]

NoIO == [readOk |-> TRUE, table |-> Table(<<>>, <<>>), zipOk |-> TRUE,
         members |-> <<>>]

Idle ==
    /\ io = NoIO
    /\ df = None
    /\ questions = <<>>
    /\ col = 0
    /\ cells = <<>>
    /\ idx = 0
    /\ results = <<>>
    /\ out = <<>>
    /\ text = NaN
    /\ env = IdleEnv
    /\ result = NoResult
    /\ exc = "none"

\* ------------------------------------------------------------- analyze_sentiment, called directly

\* every text over Alphabet of at most MaxLen characters
Alphabet == {" ", "n", "o", "N"}

RECURSIVE TextsOfLen(_)
TextsOfLen(n) ==
    IF n = 0 THEN {<<>>}
    ELSE {Append(t, c) : t \in TextsOfLen(n - 1), c \in Alphabet}

ShortTexts == UNION {TextsOfLen(n) : n \in 0..MaxLen}

NamedTexts ==
    {<<"n","a","h">>, <<"N","A","H">>, <<"N","a","h","\n">>, <<"n","e","v","e","r">>,
     <<"n","o","t"," ","r","e","a","l","l","y">>, <<" ","N","o","t"," ","R","e","a","l","l","y"," ">>,
     <<"y","e","s">>, <<"Y","e","s">>, <<"y","e","a","h">>,
     <<"s","u","r","e">>, <<"D","E","F","I","N","I","T","E","L","Y">>,
     <<"y","e","s"," ","s","i","r">>, <<"n","o","t"," ","r","e","a","l","l","y"," ","s","u","r","e">>,
     <<"n","e","v","e","r"," ","a","g","a","i","n">>, <<"b","o","n","j","o","u","r">>,
     <<"g","r","e","a","t"," ","j","o","b">>}

\* the arguments analyze_sentiment is called with
Inputs == {NaN} \cup {Str(t) : t \in ShortTexts \cup NamedTexts}

InitClassify ==
    /\ entry = "analyze_sentiment"
    /\ pc = "call"
    /\ pc = "call"
    /\ fs = NoFs
    /\ path = <<>>
    /\ Idle

\* one call of analyze_sentiment(text)
Classify ==
    /\ entry = "analyze_sentiment"
    /\ pc = "call"
    /\ \E t \in Inputs :
       \E e \in EnvsOf(t, Envs) :
         /\ text' = t
         /\ env' = e
         /\ result' = analyze_sentiment(t, e)
    /\ pc' = "called"
    /\ UNCHANGED <<entry, fs, path, df, questions, col, cells, idx, results,
                   out, exc, io>>

NextClassify == Classify

SpecClassify == InitClassify /\ [][NextClassify]_vars

\* ------------------------------------------------------------- main and process_feedback

\* what the libraries answer for a cell of a table: the language is
\* English, unknown or French, the translator and each scorer return or raise
RunEnvs ==
    {e \in [lang : DetectOutcomes, trOk : BOOLEAN, trText : {<<"g","o","o","d">>},
            vaderOk : BOOLEAN, vader : {0, Res}, blobOk : BOOLEAN,
            blob : {0, Res}] :
       /\ Canonical(e)
       /\ (e.trOk /\ e.vaderOk /\ e.blobOk) => (e.vader = Res /\ e.blob = 0)}

InitMain ==
    /\ entry = "main"
    /\ pc = "main"
    /\ fs \in {NoFs} \cup [exists : {FALSE}, listing : Listings]
    /\ path = <<>>
    /\ Idle

InitProcess ==
    /\ entry = "process_feedback"
    /\ pc = "process_feedback"
    /\ fs = NoFs
    /\ path \in DirectPaths
    /\ Idle

\* where control goes when process_feedback returns
AfterReturn == IF entry = "main" THEN "finally" ELSE "returned"

\* where control goes when an exception leaves process_feedback
AfterRaise == IF entry = "main" THEN "except" ELSE "raised"

\* main, up to its call of process_feedback
Main ==
    /\ pc = "main"
    /\ IF fs.exists
       THEN /\ path' = FILE_PATH
            /\ out' = out \o <<Ev("start"), Ev("found")>>
            /\ pc' = "process_feedback"
       ELSE LET excel_files == SelectSeq(fs.listing, IsSheet)
            IN  IF excel_files # <<>>
                THEN /\ path' = excel_files[1]
                     /\ out' = out \o <<Ev("start"), Ev("not_found"),
                                        Ev("candidates"), Ev("using")>>
                     /\ pc' = "process_feedback"
                ELSE /\ path' = path
                     /\ out' = out \o <<Ev("start"), Ev("not_found"),
                                        Ev("no_files")>>
                     /\ pc' = "finally"
    /\ UNCHANGED <<entry, fs, df, questions, col, cells, idx, results,
                   text, env, result, exc, io>>

\* process_feedback, up to its column loop; an exception that leaves
\* load_file leaves process_feedback too
ProcessFeedback ==
    /\ pc = "process_feedback"
    /\ \E x \in IOs :
         LET l == load_file(path, x)
         IN  /\ Read(path, x)
             /\ io' = x
             /\ IF l.raised # "none"
                THEN /\ exc' = l.raised
                     /\ pc' = AfterRaise
                     /\ out' = out \o l.out
                     /\ UNCHANGED <<df, questions, col>>
                ELSE IF l.df.isNone \/ IsEmpty(l.df)
                THEN /\ df' = l.df
                     /\ out' = out \o l.out \o <<Ev("invalid")>>
                     /\ pc' = AfterReturn
                     /\ UNCHANGED <<questions, col, exc>>
                ELSE /\ df' = l.df
                     /\ questions' = drop_columns(l.df.names)
                     /\ col' = 1
                     /\ out' = out \o l.out \o <<Ev("loaded"), Ev("analyzing")>>
                     /\ pc' = "column"
                     /\ exc' = exc
    /\ UNCHANGED <<entry, fs, path, cells, idx, results, text, env, result>>

\* the head of the column loop: the next column's header, or the return
Column ==
    /\ pc = "column"
    /\ IF col <= Len(questions)
       THEN /\ out' = out \o <<EvQuestion(questions[col])>>
            /\ results' = <<>>
            /\ cells' = dropna_astype_str(Series(df, questions[col]))
            /\ idx' = 1
            /\ pc' = "cell"
       ELSE /\ pc' = AfterReturn
            /\ UNCHANGED <<out, results, cells, idx>>
    /\ UNCHANGED <<entry, fs, path, df, questions, col, text, env, result,
                   exc, io>>

\* one turn of the cell loop: classify the cell and collect its row
Cell ==
    /\ pc = "cell"
    /\ idx <= Len(cells)
    /\ \E e \in EnvsOf(Str(cells[idx]), RunEnvs) :
         LET r == analyze_sentiment(Str(cells[idx]), e)
         IN  /\ text' = Str(cells[idx])
             /\ env' = e
             /\ result' = r
             /\ IF r.raised # "none"
                THEN /\ exc' = r.raised
                     /\ pc' = AfterRaise
                     /\ UNCHANGED <<results, idx>>
                ELSE /\ results' = Append(results, Row(cells[idx], r))
                     /\ idx' = idx + 1
                     /\ UNCHANGED <<exc, pc>>
    /\ UNCHANGED <<entry, fs, path, df, questions, col, cells, out, io>>

\* after the cell loop: the column's table, or the note that it has none
ColumnEnd ==
    /\ pc = "cell"
    /\ idx > Len(cells)
    /\ out' = out \o (IF results # <<>> THEN <<EvTable(results)>>
                      ELSE <<Ev("no_feedback")>>)
    /\ col' = col + 1
    /\ pc' = "column"
    /\ UNCHANGED <<entry, fs, path, df, questions, cells, idx, results,
                   text, env, result, exc, io>>

Handled(e, out_) == [exc |-> e, out |-> out_]

\* main without its except clause: the exception stays in flight
main_except_missing(e) == Handled(e, <<>>)

\* main's except clause: print the diagnostic, the exception is handled
main_except(e) == Handled("none", <<Ev("error")>>)

Except ==
    /\ pc = "except"
    /\ exc' = main_except(exc).exc
    /\ out' = out \o main_except(exc).out
    /\ pc' = "finally"
    /\ UNCHANGED <<entry, fs, path, df, questions, col, cells, idx, results,
                   text, env, result, io>>

\* main's finally clause, then the exception in flight, if any, leaves main
Finally ==
    /\ pc = "finally"
    /\ out' = out \o <<Ev("complete")>>
    /\ pc' = IF exc = "none" THEN "done" ELSE "crashed"
    /\ UNCHANGED <<entry, fs, path, df, questions, col, cells, idx, results,
                   text, env, result, exc, io>>

Init == InitMain \/ InitProcess

Next == Main \/ ProcessFeedback \/ Column \/ Cell \/ ColumnEnd \/ Except \/ Finally

Spec == Init /\ [][Next]_vars

\* main alone; the program is one thread that runs until it ends
MainSpec == InitMain /\ [][Next]_vars /\ WF_vars(Next)

\* ------------------------------------------------------------- properties

Has(s, x) == \E i \in 1..Len(s) : s[i] = x

HasKind(o, k) == \E i \in 1..Len(o) : o[i].kind = k

\* every character of t is whitespace (the empty text included)
Blank(t) == \A i \in 1..Len(t) : t[i] \in Whitespace

Labels == {"Very Negative", "Negative", "Neutral", "Positive", "Very Positive"}

\* the threshold table, on a fraction num / den with den > 0
InRange(label, s) ==
    CASE label = "Very Positive" -> 10 * s.num >= 7 * s.den
      [] label = "Positive" -> 2 * s.den <= 10 * s.num /\ 10 * s.num < 7 * s.den
      [] label = "Neutral" -> -2 * s.den < 10 * s.num /\ 10 * s.num < 2 * s.den
      [] label = "Negative" -> -7 * s.den < 10 * s.num /\ 10 * s.num <= -2 * s.den
      [] label = "Very Negative" -> 10 * s.num <= -7 * s.den

\* the call of analyze_sentiment reached the thresholding step
Thresholded == pc = "called" /\ result.raised = "none" /\ Has(result.calls, "textblob")

\* C1: whenever analyze_sentiment reaches the thresholding step, the score it
\* returns is the average of the two scorers' answers, the label it returns
\* is the one the threshold table gives for that score, and exactly one of
\* the five ranges of the table contains the score.
C1_ThresholdTable ==
    Thresholded =>
        /\ result.score.den > 0
        /\ result.score.num * (2 * Res) = (env.vader + env.blob) * result.score.den
        /\ result.category \in Labels
        /\ InRange(result.category, result.score)
        /\ Cardinality({l \in Labels : InRange(l, result.score)}) = 1

\* a score of exactly 0.7 was labelled Very Positive
C1_Witness ==
    /\ Thresholded
    /\ 10 * result.score.num = 7 * result.score.den
    /\ result.category = "Very Positive"

\* C2: when the translator is invoked and fails, analyze_sentiment raises
\* nothing, scores the untranslated text and returns a label with its score.
C2_TranslationFailureContained ==
    (pc = "called" /\ Has(result.calls, "translate") /\ ~env.trOk) =>
        /\ result.raised = "none"
        /\ result.scored = lower(strip(text.val))
        /\ result.category \in Labels

\* C5: for a missing text and for a text that is empty after trimming,
\* analyze_sentiment returns (Neutral, 0.0) and runs none of the quick
\* checks, the detector, the translator and the scorers.
C5_EmptyGuard ==
    (pc = "called" /\ (text.na \/ Blank(text.val))) =>
        /\ result.raised = "none"
        /\ result.category = "Neutral"
        /\ result.score.num = 0
        /\ result.calls = <<>>
        /\ result.scored = <<>>

\* a text of two spaces was classified
C5_Witness ==
    /\ pc = "called"
    /\ text = Str(<<" ", " ">>)
    /\ result.category = "Neutral"

NegativeLiterals ==
    {<<"n","o">>, <<"n","a","h">>, <<"n","e","v","e","r">>,
     <<"n","o","t"," ","r","e","a","l","l","y">>}

PositiveLiterals ==
    {<<"y","e","s">>, <<"y","e","a","h">>, <<"s","u","r","e">>,
     <<"d","e","f","i","n","i","t","e","l","y">>}

\* C6: a text that, trimmed and lower-cased, equals a negative literal is
\* classified (Negative, -0.3), one that equals a positive literal
\* (Positive, 0.3), both after the quick checks alone; every other non-blank
\* text, one that contains a literal included, goes on to the detector.
C6_FastPath ==
    (pc = "called" /\ ~text.na /\ ~Blank(text.val)) =>
        LET t == lower(strip(text.val))
        IN  /\ t \in NegativeLiterals =>
                  result = Returned("Negative", Frac(-3, 10), <<"quick_check">>, <<>>)
            /\ t \in PositiveLiterals =>
                  result = Returned("Positive", Frac(3, 10), <<"quick_check">>, <<>>)
            /\ t \notin NegativeLiterals \cup PositiveLiterals =>
                  /\ Len(result.calls) >= 2
                  /\ result.calls[1] = "quick_check"
                  /\ result.calls[2] = "detect"

\* " No" took the fast path
C6_Witness ==
    /\ pc = "called"
    /\ text = Str(<<" ", "N", "o">>)
    /\ result.category = "Negative"
    /\ result.calls = <<"quick_check">>

\* C7: a failure of language detection never leaves analyze_sentiment; the
\* translator is invoked exactly when detection answered a language other
\* than English; when detection failed or answered English, the scorers get
\* the normalized text unchanged.
C7_DetectionFailureContained ==
    pc = "called" =>
        /\ result.raised # "LangDetectException"
        /\ Has(result.calls, "translate") <=>
             (Has(result.calls, "detect") /\ env.lang \notin {"en", "LangDetectException"})
        /\ (Has(result.calls, "detect") /\ env.lang \in {"en", "LangDetectException"}) =>
             /\ Has(result.calls, "vader")
             /\ result.scored = lower(strip(text.val))

\* detection failed and the text was scored as it was
C7_Witness ==
    /\ pc = "called"
    /\ env.lang = "LangDetectException"
    /\ result.raised = "none"
    /\ result.category \in Labels
    /\ result.scored = lower(strip(text.val))
    /\ result.scored # <<>>

\* the run of main or process_feedback is over
Ended == pc \in {"done", "returned", "raised", "crashed"}

\* the number of sections printed in full: a header and its table or note
Closed(o) == Cardinality({i \in 1..Len(o) : o[i].kind \in {"table", "no_feedback"}})

\* the names of the sections printed, in order
IsQuestion(e) == e.kind = "question"
Sections(o) ==
    LET q == SelectSeq(o, IsQuestion) IN [i \in 1..Len(q) |-> q[i].name]

NotIdentity(n) == n \notin {"Timestamp", "Name", "Roll No", "Class"}

NonBlankCell(c) == ~c.na /\ ~Blank(c.val)

\* C3: a failure of detection or translation in one cell never aborts the
\* batch: unless a scorer failed, a run that got to the column loop ends
\* with every retained column reported in full.
C3_BatchSurvivesCellFailure ==
    (Ended /\ HasKind(out, "analyzing") /\ result.raised # "ScorerError") =>
        /\ Sections(out) = SelectSeq(df.names, NotIdentity)
        /\ Closed(out) = Len(Sections(out))

\* C4: when the cell loop of a column is over, the rows collected are the
\* column's non-null, non-blank cells, in order, and no blank text was
\* handed to the classifier.
C4_RowsAreNonBlankCells ==
    /\ (pc = "cell" /\ idx > Len(cells)) =>
          LET kept == SelectSeq(Series(df, questions[col]), NonBlankCell)
          IN  /\ Len(results) = Len(kept)
              /\ \A i \in 1..Len(kept) : results[i].text = kept[i].val
    /\ (entry # "analyze_sentiment" /\ result # NoResult) => ~Blank(text.val)

\* process_feedback returned normally from its column loop
ReturnedNormally ==
    /\ pc \in {"finally", "done", "returned"}
    /\ HasKind(out, "loaded")
    /\ result.raised = "none"

\* C8: the sections reported are the input's column names without
\* Timestamp, Name, Roll No and Class, in the input's order, whichever of the
\* four are present; a retained column with no non-empty cell has its
\* section, marked as having no feedback.
C8_Sections ==
    /\ ReturnedNormally => Sections(out) = SelectSeq(df.names, NotIdentity)
    /\ \A i \in 1..Len(out) :
         (out[i].kind = "question" /\ i < Len(out)
            /\ SelectSeq(Series(df, out[i].name), NonBlankCell) = <<>>)
         => out[i + 1].kind = "no_feedback"

\* load_file was called and has ended
LoadEnded == pc \notin {"main", "process_feedback"} /\ HasKind(out, "loading")

IsArchive(f) == endswith(f, <<".","z","i","p">>)
IsWorkbook(f) ==
    endswith(f, <<".","x","l","s","x">>) \/ endswith(f, <<".","c","s","v">>)

\* the causes of a failed load: an unsupported extension, an archive that
\* cannot be opened or holds no workbook, a read that raises
Unsupported == ~IsWorkbook(path) /\ ~IsArchive(path)
NoMember == IsArchive(path) /\ io.zipOk /\ SelectSeq(io.members, IsWorkbook) = <<>>
ReadRaised == (IsArchive(path) /\ ~io.zipOk) \/ ~io.readOk

\* C9: for an unsupported extension, an archive with no .xlsx/.csv member
\* and any exception while reading (a missing file included), load_file
\* raises nothing, prints its diagnostic and returns None; process_feedback
\* then prints its own diagnostic and returns, with no column dropped and no
\* cell classified.
C9_LoadFailureIsGraceful ==
    (LoadEnded /\ (Unsupported \/ NoMember \/ ReadRaised)) =>
        /\ exc = "none"
        /\ pc \in {"finally", "done", "returned"}
        /\ df = None
        /\ Unsupported => HasKind(out, "unsupported")
        /\ NoMember => HasKind(out, "no_valid_in_zip")
        /\ ReadRaised => HasKind(out, "load_error")
        /\ HasKind(out, "invalid")
        /\ ~HasKind(out, "analyzing") /\ ~HasKind(out, "question")
        /\ questions = <<>>
        /\ result = NoResult

\* an archive with no workbook in it was loaded
C9_Witness ==
    /\ pc = "returned"
    /\ NoMember
    /\ io.members # <<>>
    /\ HasKind(out, "no_valid_in_zip")

\* what main guarantees in every state
C10_Safe ==
    /\ pc # "crashed"
    /\ pc = "done" =>
         /\ exc = "none"
         /\ out[Len(out)].kind = "complete"
         /\ result.raised # "none" =>
              /\ out[Len(out) - 1].kind = "error"
              /\ out[Len(out) - 2].kind = "question"
              /\ Closed(out) < Len(questions)

\* C10: in main, whichever file is selected and whatever is raised inside
\* process_feedback, no exception leaves main's try block: it is printed as a
\* diagnostic, nothing more is processed, and the run reaches the final
\* 'Analysis complete' step.
C10_AlwaysCompletes == []C10_Safe /\ <>(pc = "done")

\* a scorer raised in the middle of the batch and main still completed
C10_Witness ==
    /\ entry = "main"
    /\ pc = "done"
    /\ result.raised = "ScorerError"
    /\ HasKind(out, "error")

====
